---- MODULE Spec2Model ----
(***************************************************************************)
(* Model of the 4g-core-deployment-controller:                             *)
(*   - the subscriber endpoints (routers/core/subscribers.py) running as   *)
(*     concurrent cooperative tasks over one MongoDB collection, reached   *)
(*     through MongoDBService (services/mongodb.py);                       *)
(*   - the forwarding endpoints (routers/core/proxy.py).                   *)
(*                                                                         *)
(* A task is suspended only at an await.  The storage server applies each  *)
(* awaited operation atomically, so every storage call is one action; the  *)
(* code the task runs when it resumes, up to its next await or to its      *)
(* response, touches no state another task reads before its own next       *)
(* storage call except the index flag, and is folded into that action.     *)
(***************************************************************************)
EXTENDS Integers, Sequences, FiniteSets, TLC

\* ------------------------------------------------------------------ bounds
MaxStore == 2      \* documents the collection may hold
MaxCalls == 1      \* forwarded calls in flight at the same time (they share no state)

\* Two tasks, two well-formed imsi values and two valuations of the other
\* fields of a document: the least that lets two requests race on one imsi,
\* lets a payload embed an imsi other than the path's, and lets a replacement
\* differ from what it replaces.
Slots == {"t1", "t2"}
Imsis == {"001010000000001", "001010000000002"}
Datas == {"d1", "d2"}

\* The imsi of a path is any string (imsi: str): the two above and one that is
\* no imsi.
PathImsis == Imsis \cup {"abc"}
Calls == 1..MaxCalls

\* ------------------------------------------------------- program constants
HTTP_200_OK         == 200
HTTP_201_CREATED    == 201
HTTP_404_NOT_FOUND  == 404
HTTP_409_CONFLICT   == 409
HTTP_422_UNPROCESSABLE == 422

VARIABLES
    store,                \* the documents of the subscribers collection, in storage order
    index_imsi_unique,    \* the collection has the unique index on "imsi"
    indexes_initialized,  \* MongoDBService._indexes_initialized
    req,                  \* per slot: the request handled by that task
    px,                   \* per slot: the forwarded call handled by that task
    lst,                  \* a listing scenario: a collection, a query and its result
    vld                   \* a validation scenario: a request body and the verdict

vars == <<store, index_imsi_unique, indexes_initialized, req, px, lst, vld>>

\* =========================================================================
\* Storage layer (MongoDB semantics of the calls the code makes)
\* =========================================================================

ImsiCount(s, i) == Cardinality({k \in 1..Len(s) : s[k].imsi = i})
HasImsi(s, i)   == \E k \in 1..Len(s) : s[k].imsi = i
FirstMatch(s, i) == CHOOSE k \in 1..Len(s) :
                        s[k].imsi = i /\ \A j \in 1..(k - 1) : s[j].imsi # i
NoDuplicates(s) == \A j, k \in 1..Len(s) : j # k => s[j].imsi # s[k].imsi
RemoveAt(s, k)  == SubSeq(s, 1, k - 1) \o SubSeq(s, k + 1, Len(s))

\* Faulty variant: creating the index a second time is an error.
CreateIndexOnlyOnce(s, idx) == ~idx /\ NoDuplicates(s)

\* collection.create_index("imsi", unique=True): the server builds the index
\* unless the call fails (server unreachable, conflicting index options) and
\* cannot build it over documents that already share an imsi.  Creating an
\* index that exists is a no-op that succeeds.
CreateIndexCanSucceed(s, idx) == idx \/ NoDuplicates(s)

\* Faulty variant: the document is stored twice.
InsertOneTwice(s, idx, doc) ==
    [store |-> Append(Append(s, doc), doc), res |-> "inserted"]

\* collection.insert_one(doc): DuplicateKeyError iff the unique index exists
\* and a stored document has the same imsi; otherwise the document is appended.
InsertOne(s, idx, doc) ==
    IF idx /\ HasImsi(s, doc.imsi)
    THEN [store |-> s, res |-> "DuplicateKeyError"]
    ELSE [store |-> Append(s, doc), res |-> "inserted"]

\* collection.delete_one({"imsi": imsi}): removes the first matching document.
DeleteOne(s, imsi) ==
    IF HasImsi(s, imsi)
    THEN [store |-> RemoveAt(s, FirstMatch(s, imsi)), deleted_count |-> 1]
    ELSE [store |-> s, deleted_count |-> 0]

\* Faulty variant: replace_one(..., upsert=True): inserts when nothing matches.
ReplaceOneUpsert(s, idx, imsi, doc) ==
    IF ~HasImsi(s, imsi)
    THEN [store |-> Append(s, doc), res |-> "matched0"]
    ELSE [store |-> [s EXCEPT ![FirstMatch(s, imsi)] = doc], res |-> "matched1"]

\* collection.replace_one({"imsi": imsi}, doc) (no upsert): replaces the first
\* matching document in place; DuplicateKeyError if the unique index exists and
\* the replacement's imsi is that of another document.
ReplaceOne(s, idx, imsi, doc) ==
    IF ~HasImsi(s, imsi)
    THEN [store |-> s, res |-> "matched0"]
    ELSE LET p == FirstMatch(s, imsi) IN
         IF idx /\ \E k \in 1..Len(s) : k # p /\ s[k].imsi = doc.imsi
         THEN [store |-> s, res |-> "DuplicateKeyError"]
         ELSE [store |-> [s EXCEPT ![p] = doc], res |-> "matched1"]

\* =========================================================================
\* Requests on /core/subscribers
\* =========================================================================

\* A validated SubscriberSchema body without "_id" (id defaults to None, which
\* exclude_none drops from the dump): its imsi and its other fields.
Payloads == [imsi : Imsis, data : Datas]

IdleReq == [kind |-> "none", imsi |-> "-", pimsi |-> "-", data |-> "-", valid |-> TRUE,
            pc |-> "idle", status |-> 0, clean |-> FALSE]

InFlight(r) == req[r].pc \in {"create_index", "handler"}
Free(r)     == req[r].pc \in {"idle", "done"}

PendingCreates ==
    Cardinality({r \in Slots : InFlight(r) /\ req[r].kind = "create" /\ req[r].valid})

\* get_subscriber_collection -> MongoDBService.get_subscriber_collection ->
\* _ensure_indexes up to its first await: with the flag set it returns at once
\* and the handler runs up to its storage call; otherwise create_index is awaited.
EnsureIndexesEntry == IF indexes_initialized THEN "handler" ELSE "create_index"

\* POST /core/subscribers arrives (slot r takes it).  The second conjunct is
\* the bound on the collection, not a condition of the code.  clean records
\* that no stored document had the imsi when the request arrived.
PostSubscribers(r, payload) ==
    /\ Free(r)
    /\ Len(store) + PendingCreates < MaxStore
    /\ req' = [req EXCEPT ![r] =
                 [kind |-> "create", imsi |-> payload.imsi, pimsi |-> payload.imsi,
                  data |-> payload.data, valid |-> TRUE,
                  pc |-> EnsureIndexesEntry, status |-> 0,
                  clean |-> ~HasImsi(store, payload.imsi)]]
    /\ UNCHANGED <<store, index_imsi_unique, indexes_initialized, px, lst, vld>>

\* DELETE /core/subscribers/{imsi} arrives.
DeleteSubscribers(r, imsi) ==
    /\ Free(r)
    /\ req' = [req EXCEPT ![r] =
                 [kind |-> "delete", imsi |-> imsi, pimsi |-> "-",
                  data |-> "-", valid |-> TRUE,
                  pc |-> EnsureIndexesEntry, status |-> 0, clean |-> FALSE]]
    /\ UNCHANGED <<store, index_imsi_unique, indexes_initialized, px, lst, vld>>

\* PUT /core/subscribers/{imsi} arrives.
PutSubscribers(r, imsi, payload) ==
    /\ Free(r)
    /\ req' = [req EXCEPT ![r] =
                 [kind |-> "replace", imsi |-> imsi, pimsi |-> payload.imsi,
                  data |-> payload.data, valid |-> TRUE,
                  pc |-> EnsureIndexesEntry, status |-> 0, clean |-> FALSE]]
    /\ UNCHANGED <<store, index_imsi_unique, indexes_initialized, px, lst, vld>>

\* A request whose body fails the validation of SubscriberSchema.  The route
\* takes the collection from Depends(get_subscriber_collection): the framework
\* solves a route's dependencies before it validates the body, so
\* _ensure_indexes runs for this request too; the handler never does, and the
\* request is answered 422 once the dependency has returned.
InvalidReq(kind, imsi) ==
    [kind |-> kind, imsi |-> imsi, pimsi |-> "-", data |-> "-", valid |-> FALSE,
     pc |-> IF indexes_initialized THEN "done" ELSE "create_index",
     status |-> IF indexes_initialized THEN HTTP_422_UNPROCESSABLE ELSE 0,
     clean |-> FALSE]

\* POST /core/subscribers arrives with an invalid body.
PostSubscribersInvalid(r) ==
    /\ Free(r)
    /\ req' = [req EXCEPT ![r] = InvalidReq("create", "-")]
    /\ UNCHANGED <<store, index_imsi_unique, indexes_initialized, px, lst, vld>>

\* PUT /core/subscribers/{imsi} arrives with an invalid body.
PutSubscribersInvalid(r, imsi) ==
    /\ Free(r)
    /\ req' = [req EXCEPT ![r] = InvalidReq("replace", imsi)]
    /\ UNCHANGED <<store, index_imsi_unique, indexes_initialized, px, lst, vld>>

\* Faulty variant: the body is handed to the handler unvalidated.
AfterDependencyUnvalidated(r) == [req[r] EXCEPT !.pc = "handler"]

\* The task of slot r after get_subscriber_collection has returned: the handler
\* up to its storage call, or the 422 answer to an invalid body.
AfterDependency(r) ==
    IF req[r].valid
    THEN [req[r] EXCEPT !.pc = "handler"]
    ELSE [req[r] EXCEPT !.pc = "done", !.status = HTTP_422_UNPROCESSABLE]

\* The awaited collection.create_index("imsi", unique=True) succeeds and
\* _ensure_indexes resumes: the flag is set, get_subscriber_collection returns
\* the collection and the handler runs up to its storage call.
CreateIndexOk(r) ==
    /\ req[r].pc = "create_index"
    /\ CreateIndexCanSucceed(store, index_imsi_unique)
    /\ index_imsi_unique' = TRUE
    /\ indexes_initialized' = TRUE
    /\ req' = [req EXCEPT ![r] = AfterDependency(r)]
    /\ UNCHANGED <<store, px, lst, vld>>

\* Faulty variant: the flag is set whether or not create_index succeeded.
CreateIndexFailsSetsFlag(r) ==
    /\ req[r].pc = "create_index"
    /\ indexes_initialized' = TRUE
    /\ req' = [req EXCEPT ![r] = AfterDependency(r)]
    /\ UNCHANGED <<store, index_imsi_unique, px, lst, vld>>

\* The awaited create_index raises: _ensure_indexes logs a warning and leaves
\* the flag; get_subscriber_collection returns the collection all the same.
CreateIndexFails(r) ==
    /\ req[r].pc = "create_index"
    /\ req' = [req EXCEPT ![r] = AfterDependency(r)]
    /\ UNCHANGED <<store, index_imsi_unique, indexes_initialized, px, lst, vld>>

\* model_dump(by_alias=True, exclude={"id"}, exclude_none=True)
SubscriberDict(payload) == [imsi |-> payload.imsi, data |-> payload.data]

\* Faulty variant: the path imsi is not written over the payload's.
UpdateDictKeepsPayloadImsi(imsi, payload) == [imsi |-> payload.imsi, data |-> payload.data]

\* model_dump(by_alias=True, exclude_none=True); update_dict["imsi"] = imsi
UpdateDict(imsi, payload) == [imsi |-> imsi, data |-> payload.data]

CreateStatus(res) ==
    IF res = "DuplicateKeyError" THEN HTTP_409_CONFLICT ELSE HTTP_201_CREATED

\* Faulty variant: the not-found branch is never taken.
DeleteStatusAlwaysOk(deleted_count) ==
    IF deleted_count >= 0 THEN HTTP_200_OK ELSE HTTP_404_NOT_FOUND

DeleteStatus(deleted_count) ==
    IF deleted_count = 1 THEN HTTP_200_OK ELSE HTTP_404_NOT_FOUND

UpdateStatus(res) ==
    IF res = "DuplicateKeyError" THEN HTTP_409_CONFLICT
    ELSE IF res = "matched0" THEN HTTP_404_NOT_FOUND
    ELSE HTTP_200_OK

PayloadOf(r) == [imsi |-> req[r].pimsi, data |-> req[r].data]

\* create_subscriber: insert_one is applied and the response is produced.
create_subscriber(r) ==
    /\ req[r].pc = "handler" /\ req[r].kind = "create"
    /\ LET out == InsertOne(store, index_imsi_unique, SubscriberDict(PayloadOf(r))) IN
         /\ store' = out.store
         /\ req' = [req EXCEPT ![r].pc = "done", ![r].status = CreateStatus(out.res)]
    /\ UNCHANGED <<index_imsi_unique, indexes_initialized, px, lst, vld>>

\* delete_subscriber: delete_one is applied and the response is produced.
\* (clean is bookkeeping: a create stops being "concurrent on an absent imsi"
\* once a delete of that imsi has been applied.)
delete_subscriber(r) ==
    /\ req[r].pc = "handler" /\ req[r].kind = "delete"
    /\ LET out == DeleteOne(store, req[r].imsi) IN
         /\ store' = out.store
         /\ req' = [s \in Slots |->
                      IF s = r
                      THEN [req[r] EXCEPT !.pc = "done",
                                          !.status = DeleteStatus(out.deleted_count)]
                      ELSE IF out.deleted_count = 1 /\ req[s].imsi = req[r].imsi
                      THEN [req[s] EXCEPT !.clean = FALSE]
                      ELSE req[s]]
    /\ UNCHANGED <<index_imsi_unique, indexes_initialized, px, lst, vld>>

\* update_subscriber: replace_one is applied and the response is produced.
update_subscriber(r) ==
    /\ req[r].pc = "handler" /\ req[r].kind = "replace"
    /\ LET out == ReplaceOne(store, index_imsi_unique, req[r].imsi,
                             UpdateDict(req[r].imsi, PayloadOf(r))) IN
         /\ store' = out.store
         /\ req' = [req EXCEPT ![r].pc = "done", ![r].status = UpdateStatus(out.res)]
    /\ UNCHANGED <<index_imsi_unique, indexes_initialized, px, lst, vld>>

\* =========================================================================
\* Forwarded calls (routers/core/proxy.py)
\* =========================================================================
\* The three forwarding endpoints and the fixed destination each one passes.
Endpoints == {"enb-info", "ue-info", "pdu-info"}
DestinationUrl(e) ==
    IF e = "pdu-info" THEN "http://smf:9091/pdu-info"
    ELSE IF e = "ue-info" THEN "http://mme:9091/ue-info"
    ELSE "http://mme:9091/enb-info"

HTTP_502_BAD_GATEWAY     == 502
HTTP_504_GATEWAY_TIMEOUT == 504

\* What the awaited client.request(...) can end in: a response (any status, a
\* body that parses as JSON or does not) or an exception of the HTTP client.
UpstreamStatuses == {200, 503}
JsonBodies == {"json1", "json2", "json3"}
NotJson    == "<html>"
ExcClasses == {"ConnectTimeout", "ReadTimeout", "ConnectError", "ReadError",
               "RemoteProtocolError"}
ExcTexts   == {"exc-text-1", "exc-text-2"}

Outcomes ==
    [kind : {"response"}, status : UpstreamStatuses, body : JsonBodies \cup {NotJson},
     cls : {"-"}, text : {"-"}]
    \cup
    [kind : {"exception"}, status : {0}, body : {"-"}, cls : ExcClasses, text : ExcTexts]

NoOutcome == [kind |-> "none", status |-> 0, body |-> "-", cls |-> "-", text |-> "-"]

\* httpx class hierarchy, as the except clauses test it.
IsTimeoutException(cls) == cls \in {"ConnectTimeout", "ReadTimeout", "WriteTimeout", "PoolTimeout"}
IsConnectError(cls)     == cls = "ConnectError"
IsException(cls)        == cls # "CancelledError"

\* The exception the body of the try block ends in, if any: the one raised by
\* client.request, or the one response.json() raises on a body that is no JSON.
Raised(out) ==
    IF out.kind = "exception" THEN [cls |-> out.cls, text |-> out.text]
    ELSE IF out.body = NotJson THEN [cls |-> "JSONDecodeError", text |-> "Expecting value"]
    ELSE [cls |-> "-", text |-> "-"]

NoData == [error |-> "-", detail |-> <<>>, body |-> "-"]

\* Faulty variant: the generic detail echoes the exception.
GenericDetailEchoesException(text) == <<"Unexpected error contacting backend: ", text>>

\* The detail of the last except clause: a fixed text.
GenericDetail(text) == <<"Unexpected error contacting backend">>

\* proxy_request's return value (data, status_code) for an outcome of its one
\* attempt; raised is TRUE when no except clause catches the exception.
ProxyResult(destination_url, out) ==
    LET exc == Raised(out) IN
    IF exc.cls = "-"
    THEN [raised |-> FALSE, status |-> out.status,
          data |-> [error |-> "-", detail |-> <<>>, body |-> out.body]]
    ELSE IF IsTimeoutException(exc.cls)
    THEN [raised |-> FALSE, status |-> HTTP_504_GATEWAY_TIMEOUT,
          data |-> [error |-> "Gateway timeout",
                    detail |-> <<"Backend ", destination_url, " did not respond in time">>,
                    body |-> "-"]]
    ELSE IF IsConnectError(exc.cls)
    THEN [raised |-> FALSE, status |-> HTTP_502_BAD_GATEWAY,
          data |-> [error |-> "Bad gateway",
                    detail |-> <<"Could not connect to ", destination_url>>,
                    body |-> "-"]]
    ELSE IF IsException(exc.cls)
    THEN [raised |-> FALSE, status |-> HTTP_502_BAD_GATEWAY,
          data |-> [error |-> "Bad gateway", detail |-> GenericDetail(exc.text),
                    body |-> "-"]]
    ELSE [raised |-> TRUE, status |-> 0, data |-> NoData]

\* What the client of a forwarding endpoint receives.  The endpoint returns the
\* tuple (data, status_code) from a route declared without a status code: the
\* framework sends the returned value as the JSON body, a tuple as a JSON
\* array, under the route's default status 200.
EndpointResponse(result) ==
    [status_code |-> HTTP_200_OK,
     content |-> [type |-> "array", val |-> <<result.data, result.status>>]]

NoResult   == [raised |-> FALSE, status |-> 0, data |-> NoData]
NoResponse == [status_code |-> 0, content |-> [type |-> "none", val |-> <<>>]]

IdleCall == [pc |-> "idle", endpoint |-> "-", out |-> NoOutcome, attempts |-> 0,
             client_open |-> FALSE, result |-> NoResult, response |-> NoResponse]

\* GET /core/<endpoint> arrives: the endpoint calls proxy_request, which opens
\* the AsyncClient and awaits client.request(...).
get_info(c, e) ==
    /\ px[c].pc \in {"idle", "done"}
    /\ px' = [px EXCEPT ![c] = [IdleCall EXCEPT !.pc = "request", !.endpoint = e,
                                                !.attempts = 1, !.client_open = TRUE]]
    /\ UNCHANGED <<store, index_imsi_unique, indexes_initialized, req, lst, vld>>

\* The awaited request ends: the upstream answers, the connection fails, or the
\* client's timeout (5.0) expires.
UpstreamOutcome(c, out) ==
    /\ px[c].pc = "request"
    /\ px' = [px EXCEPT ![c].pc = "resume", ![c].out = out]
    /\ UNCHANGED <<store, index_imsi_unique, indexes_initialized, req, lst, vld>>

\* Faulty variant: a timed-out attempt is made once more.
proxy_request_retries(c) ==
    /\ px[c].pc = "resume"
    /\ IF IsTimeoutException(Raised(px[c].out).cls) /\ px[c].attempts < 2
       THEN px' = [px EXCEPT ![c].pc = "request", ![c].out = NoOutcome,
                             ![c].attempts = px[c].attempts + 1]
       ELSE LET result == ProxyResult(DestinationUrl(px[c].endpoint), px[c].out) IN
            px' = [px EXCEPT ![c].pc = "done", ![c].client_open = FALSE,
                             ![c].result = result,
                             ![c].response = EndpointResponse(result)]
    /\ UNCHANGED <<store, index_imsi_unique, indexes_initialized, req, lst, vld>>

\* proxy_request resumes: the async with block is left (the client is closed),
\* the result is returned or the matching except clause returns, and the
\* endpoint returns (data, status_code).
proxy_request_return(c) ==
    /\ px[c].pc = "resume"
    /\ LET result == ProxyResult(DestinationUrl(px[c].endpoint), px[c].out) IN
         px' = [px EXCEPT ![c].pc = "done", ![c].client_open = FALSE,
                          ![c].result = result,
                          ![c].response = IF result.raised THEN NoResponse
                                          ELSE EndpointResponse(result)]
    /\ UNCHANGED <<store, index_imsi_unique, indexes_initialized, req, lst, vld>>

ProxyNext ==
    \/ \E c \in Calls, e \in Endpoints : get_info(c, e)
    \/ \E c \in Calls, out \in Outcomes : UpstreamOutcome(c, out)
    \/ \E c \in Calls : proxy_request_return(c)

NoListing    == [pc |-> "none"]
NoValidation == [pc |-> "none"]

Init ==
    /\ store = <<>>
    /\ index_imsi_unique = FALSE
    /\ indexes_initialized = FALSE
    /\ req = [r \in Slots |-> IdleReq]
    /\ px = [c \in Calls |-> IdleCall]
    /\ lst = NoListing
    /\ vld = NoValidation

Next ==
    \/ \E r \in Slots, p \in Payloads : PostSubscribers(r, p)
    \/ \E r \in Slots, i \in PathImsis : DeleteSubscribers(r, i)
    \/ \E r \in Slots, i \in PathImsis, p \in Payloads : PutSubscribers(r, i, p)
    \/ \E r \in Slots : PostSubscribersInvalid(r)
    \/ \E r \in Slots, i \in Imsis : PutSubscribersInvalid(r, i)
    \/ \E r \in Slots : CreateIndexOk(r)
    \/ \E r \in Slots : CreateIndexFails(r)
    \/ \E r \in Slots : create_subscriber(r)
    \/ \E r \in Slots : delete_subscriber(r)
    \/ \E r \in Slots : update_subscriber(r)

Spec == Init /\ [][Next]_vars

\* The forwarding layer alone.
ProxySpec == Init /\ [][ProxyNext]_vars

\* The forwarding layer under the scheduling the code relies on: every wait on
\* the upstream ends (the client's timeout bounds it) and the event loop resumes
\* every task that is ready.
ProxyFairSpec ==
    /\ Init /\ [][ProxyNext]_vars
    /\ \A c \in Calls : WF_vars(\E out \in Outcomes : UpstreamOutcome(c, out))
    /\ \A c \in Calls : WF_vars(proxy_request_return(c))

\* =========================================================================
\* Properties
\* =========================================================================
Range(f) == {f[k] : k \in DOMAIN f}

\* The storage call of slot r's handler is applied in this step.
HandlerStep(r, kind) ==
    req[r].kind = kind /\ req[r].pc = "handler" /\ req'[r].pc = "done"
Finished(r, kind) == req[r].kind = kind /\ req[r].pc = "done"

\* C1: in every reachable state no two stored subscriber documents have the
\* same imsi.
C1_UniqueImsi == NoDuplicates(store)

\* Two creates of one imsi that were in flight together while no document had
\* that imsi (none when either arrived, none deleted since), both answered.
RacedCreates(r1, r2) ==
    /\ r1 # r2
    /\ Finished(r1, "create") /\ Finished(r2, "create")
    /\ req[r1].imsi = req[r2].imsi
    /\ req[r1].valid /\ req[r2].valid
    /\ req[r1].clean /\ req[r2].clean

\* C2: of concurrent creates of one absent imsi, one is answered 201 and every
\* other 409, and exactly one document with that imsi is stored afterwards.
C2_OneWinner ==
    \A r1, r2 \in Slots :
        RacedCreates(r1, r2) =>
            /\ {req[r1].status, req[r2].status} \subseteq {HTTP_201_CREATED, HTTP_409_CONFLICT}
            /\ ~(req[r1].status = HTTP_201_CREATED /\ req[r2].status = HTTP_201_CREATED)
            /\ ImsiCount(store, req[r1].imsi) = 1

\* C3: a create whose imsi is that of a stored document is answered 409 and
\* leaves the stored documents unchanged.
C3_RepeatedCreateConflicts ==
    [][\A r \in Slots :
          (HandlerStep(r, "create") /\ HasImsi(store, req[r].imsi)) =>
              (req'[r].status = HTTP_409_CONFLICT /\ store' = store)]_vars

\* C4: a replace answered 200 leaves, in the place of the document it matched,
\* a document with the path imsi and the payload's other fields; every other
\* document is unchanged, none is added, and the documents carrying the imsi
\* embedded in the payload are as many as before.
C4_PathImsiWins ==
    [][\A r \in Slots :
          (HandlerStep(r, "replace") /\ req'[r].status = HTTP_200_OK) =>
              /\ HasImsi(store, req[r].imsi)
              /\ Len(store') = Len(store)
              /\ LET p == FirstMatch(store, req[r].imsi) IN
                   /\ store'[p] = [imsi |-> req[r].imsi, data |-> req[r].data]
                   /\ \A k \in 1..Len(store) : k # p => store'[k] = store[k]
              /\ ImsiCount(store', req[r].pimsi) = ImsiCount(store, req[r].pimsi)]_vars

\* A replace whose payload embedded another imsi was answered 200 and the
\* document stored under the path imsi carries the payload's fields.
C4_Witness ==
    \E r \in Slots :
        /\ Finished(r, "replace") /\ req[r].status = HTTP_200_OK
        /\ req[r].pimsi # req[r].imsi
        /\ \E k \in 1..Len(store) : store[k] = [imsi |-> req[r].imsi, data |-> req[r].data]

\* C5: a replace whose path imsi no stored document has is answered 404 and
\* leaves the stored documents unchanged.
C5_ReplaceAbsentNotFound ==
    [][\A r \in Slots :
          (HandlerStep(r, "replace") /\ ~HasImsi(store, req[r].imsi)) =>
              (req'[r].status = HTTP_404_NOT_FOUND /\ store' = store)]_vars

\* A replace was answered 404 while documents are stored.
C5_Witness ==
    \E r \in Slots :
        /\ Finished(r, "replace") /\ req[r].status = HTTP_404_NOT_FOUND
        /\ Len(store) > 0 /\ ~HasImsi(store, req[r].imsi)

\* C6: a delete answered 200 removes one document, one with that imsi, leaves
\* the others unchanged, and no stored document has that imsi afterwards.
C6_DeleteRemovesTheRecord ==
    [][\A r \in Slots :
          (HandlerStep(r, "delete") /\ req'[r].status = HTTP_200_OK) =>
              /\ \E p \in 1..Len(store) :
                    store[p].imsi = req[r].imsi /\ store' = RemoveAt(store, p)
              /\ ~HasImsi(store', req[r].imsi)]_vars

\* C7: a delete whose imsi no stored document has is answered 404 and leaves
\* the stored documents unchanged; a delete is answered 200 exactly when a
\* document with that imsi was stored as the storage delete was applied.
C7_DeleteAbsentNotFound ==
    [][\A r \in Slots :
          HandlerStep(r, "delete") =>
              /\ req'[r].status \in {HTTP_200_OK, HTTP_404_NOT_FOUND}
              /\ (req'[r].status = HTTP_200_OK) <=> HasImsi(store, req[r].imsi)
              /\ ~HasImsi(store, req[r].imsi) => store' = store]_vars

\* A delete was answered 404 while documents are stored.
C7_Witness ==
    \E r \in Slots :
        /\ Finished(r, "delete") /\ req[r].status = HTTP_404_NOT_FOUND
        /\ Len(store) > 0 /\ ~HasImsi(store, req[r].imsi)

UpstreamTimedOut(out)  ==
    out.kind = "exception"
    /\ out.cls \in {"ConnectTimeout", "ReadTimeout", "WriteTimeout", "PoolTimeout"}
UpstreamRefused(out)   == out.kind = "exception" /\ out.cls = "ConnectError"
UpstreamSucceeded(out) == out.kind = "response" /\ out.body # NotJson
UpstreamOtherFailure(out) ==
    \/ out.kind = "exception" /\ ~UpstreamTimedOut(out) /\ ~UpstreamRefused(out)
    \/ out.kind = "response" /\ out.body = NotJson

\* C8: proxy_request returns for every outcome of its attempt and raises for
\* none: 504 after a timeout; 502 with a detail naming destination_url after a
\* refused connection; 502 with the fixed generic detail, free of the
\* exception's text, after any other failure; the upstream's body and status
\* after a success.
C8_OutcomeMapping ==
    \A c \in Calls :
        px[c].pc = "done" =>
            LET out == px[c].out
                res == px[c].result
                url == DestinationUrl(px[c].endpoint)
            IN  /\ ~res.raised
                /\ UpstreamTimedOut(out) => res.status = HTTP_504_GATEWAY_TIMEOUT
                /\ UpstreamRefused(out) =>
                       res.status = HTTP_502_BAD_GATEWAY /\ url \in Range(res.data.detail)
                /\ UpstreamOtherFailure(out) =>
                       /\ res.status = HTTP_502_BAD_GATEWAY
                       /\ res.data.detail = <<"Unexpected error contacting backend">>
                       /\ Raised(out).text \notin Range(res.data.detail)
                /\ UpstreamSucceeded(out) =>
                       /\ res.status = out.status
                       /\ res.data = [error |-> "-", detail |-> <<>>, body |-> out.body]

\* A call whose upstream answered with a body that is no JSON returned 502.
C8_Witness ==
    \E c \in Calls :
        /\ px[c].pc = "done"
        /\ px[c].out.kind = "response" /\ px[c].out.body = NotJson
        /\ px[c].result.status = HTTP_502_BAD_GATEWAY

\* C9: the response of a forwarding endpoint has proxy_request's status as its
\* status code and proxy_request's JSON body, unmodified, as its body.
C9_ResponseCarriesResult ==
    \A c \in Calls :
        (px[c].pc = "done" /\ ~px[c].result.raised) =>
            /\ px[c].response.status_code = px[c].result.status
            /\ px[c].response.content.type = "object"
            /\ px[c].response.content.val = px[c].result.data

CreateIndexStep(r) == req[r].pc = "create_index" /\ req'[r].pc # "create_index"

C17_NoStorageCallForInvalidBody ==
    \A r \in Slots : ~req[r].valid => ~InFlight(r)

\* C17, amended: a request whose body fails validation never reaches its
\* handler, so that no insert and no replace is issued for it; it is answered
\* 422 and the stored documents are as before.  (Its create_index, awaited by
\* get_subscriber_collection while the flag is not set, is the one storage
\* call it can make.)
C17_InvalidBodyNeverWrites ==
    /\ [](\A r \in Slots : ~req[r].valid => req[r].pc # "handler")
    /\ [][\A r \in Slots :
            (~req[r].valid /\ InFlight(r) /\ ~InFlight(r)') =>
                (store' = store /\ req'[r].status = HTTP_422_UNPROCESSABLE)]_vars

\* A request with an invalid body was answered 422 after its create_index
\* failed, with documents stored.
C17_Witness ==
    \E r \in Slots :
        /\ ~req[r].valid /\ req[r].pc = "done" /\ req[r].status = HTTP_422_UNPROCESSABLE
        /\ ~indexes_initialized /\ Len(store) > 0

\* =========================================================================
\* GET /core/subscribers (get_subscribers) and the create / list round trip
\* =========================================================================

MaxDocs      == 2      \* documents of the collections enumerated shape by shape
DefaultLimit  == 100   \* limit: int = Query(100, ge=1)
DefaultOffset == 0     \* offset: int = Query(0, ge=0)
DefaultSst    == 1     \* SliceModel.sst: int = 1
DefaultSd     == "000001"

\* An optional field or parameter: left out, null (None), or a value.
Absent == [t |-> "absent"]
Null   == [t |-> "null"]
Val(x) == [t |-> "val", v |-> x]

\* Names are sequences of characters; the "i" option compares them folded.
Lower(c) == CASE c = "A" -> "a" [] c = "B" -> "b" [] OTHER -> c

\* {"$regex": pat, "$options": "i"} for a pattern of plain letters: pat occurs
\* somewhere in s, case ignored.
RegexSearchI(pat, s) ==
    \E i \in 0..(Len(s) - Len(pat)) :
        \A j \in 1..Len(pat) : Lower(s[i + j]) = Lower(pat[j])

\* Faulty variant: sst and sd may be matched by different slices
\* ({"slice.sst": X, "slice.sd": Y}).
AnySliceMatch(slices, f) ==
    /\ \E i \in 1..Len(slices) : slices[i].sst = f.sst
    /\ f.sd.t = "val" => \E i \in 1..Len(slices) : slices[i].sd = f.sd

\* {"$elemMatch": slice_filter}: one element satisfies every condition of it.
ElemMatch(slices, f) ==
    \E i \in 1..Len(slices) :
        /\ slices[i].sst = f.sst
        /\ f.sd.t = "val" => slices[i].sd = f.sd

\* Faulty variant: the sst parameter is not put into the query.
BuildQueryNameOnly(name, sst, sd) ==
    [name  |-> IF name.t = "val" /\ name.v # <<>> THEN name ELSE Absent,
     slice |-> Absent]

\* Faulty variant: an sd given without sst filters on the default sst.
BuildQuerySdAlone(name, sst, sd) ==
    [name  |-> IF name.t = "val" /\ name.v # <<>> THEN name ELSE Absent,
     slice |-> IF sst.t = "val" \/ (sd.t = "val" /\ sd.v # "")
               THEN Val([sst |-> IF sst.t = "val" THEN sst.v ELSE DefaultSst,
                         sd  |-> IF sd.t = "val" /\ sd.v # "" THEN sd ELSE Absent])
               ELSE Absent]

\* The query dict get_subscribers builds: "name" only for a non-empty name,
\* "slice" only when sst is given, with "sd" only for a non-empty sd.
BuildQuery(name, sst, sd) ==
    [name  |-> IF name.t = "val" /\ name.v # <<>> THEN name ELSE Absent,
     slice |-> IF sst.t = "val"
               THEN Val([sst |-> sst.v,
                         sd  |-> IF sd.t = "val" /\ sd.v # "" THEN sd ELSE Absent])
               ELSE Absent]

\* A stored document satisfies the query.
Matches(doc, q) ==
    /\ q.name.t = "val" => (doc.name.t = "val" /\ RegexSearchI(q.name.v, doc.name.v))
    /\ q.slice.t = "val" => ElemMatch(doc.slice, q.slice.v)

\* The cursor operators: find(q) yields the matching documents in storage
\* order, skip(n) passes over the first n of a cursor, limit(n) ends it after n.
FindAll(docs, q) == SelectSeq(docs, LAMBDA d : Matches(d, q))
Skip(cur, n)     == SubSeq(cur, n + 1, Len(cur))
Limit(cur, n)    == SubSeq(cur, 1, IF n < Len(cur) THEN n ELSE Len(cur))

\* Faulty variant: limit(lim) applied to the matches before skip(skip).
FindLimitThenSkip(docs, q, skip, lim) == Skip(Limit(FindAll(docs, q), lim), skip)

\* collection.find(q).skip(skip).limit(lim)
Find(docs, q, skip, lim) == Limit(Skip(FindAll(docs, q), skip), lim)

\* SubscriberSchema.model_validate(document): a field the document lacks takes
\* its default (name: None, sd: "000001").
ModelValidate(doc) ==
    [id    |-> doc.id,
     imsi  |-> doc.imsi,
     name  |-> IF doc.name.t = "absent" THEN Null ELSE doc.name,
     slice |-> [k \in 1..Len(doc.slice) |->
                  [sst |-> doc.slice[k].sst,
                   sd  |-> IF doc.slice[k].sd.t = "absent" THEN Val(DefaultSd)
                           ELSE doc.slice[k].sd]]]

\* get_subscribers: the validated documents of the cursor, in its order.
GetSubscribers(docs, name, sst, sd, limit, offset) ==
    LET found == Find(docs, BuildQuery(name, sst, sd), offset, limit) IN
    [k \in 1..Len(found) |-> ModelValidate(found[k])]

\* ---------------------------------------------------------------- scenarios

Slice(sst, sd) == [sst |-> sst, sd |-> sd]

\* What a stored document holds besides its ids: model_dump(exclude_none=True)
\* stored no None, so a name or an sd is a value or is not there.  sd carries no
\* pattern and slice no minimum length.
DocShapes ==
    { [name |-> Val(<<"A", "b">>), slice |-> <<Slice(1, Val("000001"))>>],
      [name |-> Val(<<"b">>),      slice |-> <<Slice(2, Val("000002"))>>],
      [name |-> Absent,            slice |-> <<Slice(1, Val("000002")), Slice(2, Val("000001"))>>],
      [name |-> Val(<<"A", "b">>), slice |-> <<Slice(1, Absent)>>],
      [name |-> Val(<<"b">>),      slice |-> <<Slice(2, Val(""))>>],
      [name |-> Absent,            slice |-> <<>>] }

\* The i-th document inserted: id stands for its ObjectId, imsi for the i-th
\* well-formed imsi.
StoredDoc(i, shape) == [id |-> i, imsi |-> i, name |-> shape.name, slice |-> shape.slice]

SmallCollections ==
    UNION { { [i \in 1..n |-> StoredDoc(i, f[i])] : f \in [1..n -> DocShapes] } : n \in 0..MaxDocs }

\* Collections around the default page size, all documents of one shape.
BigCollections ==
    { [i \in 1..n |-> StoredDoc(i, sh)] :
        n \in {DefaultLimit - 1, DefaultLimit, DefaultLimit + 1}, sh \in DocShapes }

Collections == SmallCollections \cup BigCollections

NameParams == {Null, Val(<<>>), Val(<<"a">>)}
SstParams  == {Null, Val(1), Val(2)}
SdParams   == {Null, Val(""), Val("000001"), Val("000002")}
Limits     == {1, 2, DefaultLimit}
Offsets    == {DefaultOffset, 1}

\* A GET /core/subscribers about to run over a collection.
ListQueries ==
    { [pc |-> "query", docs |-> d, name |-> n, sst |-> s, sd |-> x,
       limit |-> l, offset |-> o, result |-> <<>>] :
        d \in Collections, n \in NameParams, s \in SstParams, x \in SdParams,
        l \in Limits, o \in Offsets }

\* JSON bodies of a create, as far as name and slice go.
BodySlices == [sst : {Absent, Val(2)}, sd : {Absent, Null, Val("000002")}]
Bodies ==
    [name  : {Absent, Null, Val(<<"A", "b">>)},
     slice : { <<s>> : s \in BodySlices }
               \cup { <<Slice(Absent, Null), Slice(Val(2), Val("000002"))>> }]

\* SubscriberSchema built from a body: a field left out takes its default, an
\* explicit null stays None.
ParseBody(imsi, body) ==
    [imsi  |-> imsi,
     name  |-> IF body.name.t = "absent" THEN Null ELSE body.name,
     slice |-> [k \in 1..Len(body.slice) |->
                  [sst |-> IF body.slice[k].sst.t = "absent" THEN DefaultSst
                           ELSE body.slice[k].sst.v,
                   sd  |-> IF body.slice[k].sd.t = "absent" THEN Val(DefaultSd)
                           ELSE body.slice[k].sd]]]

\* Faulty variant: the dump leaves the name out.
ModelDumpNoName(m) ==
    [imsi  |-> m.imsi, name |-> Absent,
     slice |-> [k \in 1..Len(m.slice) |->
                  [sst |-> m.slice[k].sst,
                   sd  |-> IF m.slice[k].sd.t = "null" THEN Absent ELSE m.slice[k].sd]]]

\* model_dump(by_alias=True, exclude={"id"}, exclude_none=True): no id, and no
\* field whose value is None.
ModelDump(m) ==
    [imsi  |-> m.imsi,
     name  |-> IF m.name.t = "null" THEN Absent ELSE m.name,
     slice |-> [k \in 1..Len(m.slice) |->
                  [sst |-> m.slice[k].sst,
                   sd  |-> IF m.slice[k].sd.t = "null" THEN Absent ELSE m.slice[k].sd]]]

\* The document as insert_one stores it: the server gives it a fresh _id.
WithId(d, docs) == [id |-> Len(docs) + 1, imsi |-> d.imsi, name |-> d.name, slice |-> d.slice]

\* scripts/test_subscribers.py main(): count, create, count again; over a
\* collection with or without the unique index, the imsi new or that of the
\* first stored document.
RoundTrips ==
    { [pc |-> "count_before", docs |-> d, idx |-> x, imsi |-> i, body |-> b,
       before |-> <<>>, status |-> 0, after |-> <<>>] :
        d \in Collections, x \in BOOLEAN, i \in {1, DefaultLimit + 2}, b \in Bodies }

\* GET /core/subscribers answers the query of the scenario.
get_subscribers ==
    /\ lst.pc = "query"
    /\ lst' = [lst EXCEPT !.pc = "done",
                          !.result = GetSubscribers(lst.docs, lst.name, lst.sst, lst.sd,
                                                    lst.limit, lst.offset)]
    /\ UNCHANGED <<store, index_imsi_unique, indexes_initialized, req, px, vld>>

\* Step 1 of main(): the unfiltered list with default limit and offset.
InitialCount ==
    /\ lst.pc = "count_before"
    /\ lst' = [lst EXCEPT !.pc = "create",
                          !.before = GetSubscribers(lst.docs, Null, Null, Null,
                                                    DefaultLimit, DefaultOffset)]
    /\ UNCHANGED <<store, index_imsi_unique, indexes_initialized, req, px, vld>>

\* Step 2: POST /core/subscribers with the body (create_subscriber).
RoundTripCreate ==
    /\ lst.pc = "create"
    /\ LET doc == WithId(ModelDump(ParseBody(lst.imsi, lst.body)), lst.docs)
           ins == InsertOne(lst.docs, lst.idx, doc)
       IN  lst' = [lst EXCEPT !.docs = ins.store,
                              !.status = CreateStatus(ins.res),
                              !.pc = IF ins.res = "inserted" THEN "count_after" ELSE "failed"]
    /\ UNCHANGED <<store, index_imsi_unique, indexes_initialized, req, px, vld>>

\* Step 3: the unfiltered list again.
FinalCount ==
    /\ lst.pc = "count_after"
    /\ lst' = [lst EXCEPT !.pc = "checked",
                          !.after = GetSubscribers(lst.docs, Null, Null, Null,
                                                   DefaultLimit, DefaultOffset)]
    /\ UNCHANGED <<store, index_imsi_unique, indexes_initialized, req, px, vld>>

ListInit ==
    /\ store = <<>>
    /\ index_imsi_unique = FALSE
    /\ indexes_initialized = FALSE
    /\ req = [r \in Slots |-> IdleReq]
    /\ px = [c \in Calls |-> IdleCall]
    /\ vld = NoValidation
    /\ lst \in ListQueries \cup RoundTrips

ListNext == get_subscribers \/ InitialCount \/ RoundTripCreate \/ FinalCount

ListSpec == ListInit /\ [][ListNext]_vars

\* ------------------------------------------------- properties of the listing

Ids(s) == [k \in 1..Len(s) |-> s[k].id]
Min(a, b) == IF a < b THEN a ELSE b

\* s is the page of m that starts after its first off elements and has lim
\* elements at most.
IsPage(s, m, off, lim) ==
    /\ Len(s) = Min(lim, IF Len(m) > off THEN Len(m) - off ELSE 0)
    /\ \A n \in 1..Len(s) : s[n] = m[off + n]

\* The stored documents with a slice of sst x / with a slice of sst x and sd y.
WithSst(docs, x) ==
    SelectSeq(docs, LAMBDA d : \E k \in 1..Len(d.slice) : d.slice[k].sst = x)
WithSstSd(docs, x, y) ==
    SelectSeq(docs, LAMBDA d :
        \E k \in 1..Len(d.slice) : d.slice[k].sst = x /\ d.slice[k].sd = Val(y))

\* A finished list whose only filter is sst / whose filters are sst and sd.
SstQuery   == lst.pc = "done" /\ lst.name = Null /\ lst.sst.t = "val" /\ lst.sd = Null
SstSdQuery == lst.pc = "done" /\ lst.name = Null /\ lst.sst.t = "val" /\ lst.sd.t = "val"
DefaultPage == lst.limit = DefaultLimit /\ lst.offset = DefaultOffset

\* C13 as claimed: a list filtered by sst=X alone (limit and offset left at
\* their defaults) returns exactly the stored records with a slice of sst X.
C13_SstFilterExact ==
    (SstQuery /\ DefaultPage) => Ids(lst.result) = Ids(WithSst(lst.docs, lst.sst.v))

\* C13, amended: a list filtered by sst=X alone returns, of the stored records
\* with a slice of sst X taken in storage order, those after the first offset
\* and at most limit of them; that is all of them when offset is 0 and no more
\* than limit (100 by default) of them are stored.
C13_SstFilterPage ==
    SstQuery =>
        LET m == Ids(WithSst(lst.docs, lst.sst.v)) IN
        /\ IsPage(Ids(lst.result), m, lst.offset, lst.limit)
        /\ (lst.offset = 0 /\ Len(m) <= lst.limit) => Ids(lst.result) = m

\* An sst-only list that returned every matching record and left one out.
C13_Witness ==
    /\ SstQuery /\ DefaultPage
    /\ Len(lst.result) = 1 /\ Len(lst.docs) = 2
    /\ Ids(lst.result) = Ids(WithSst(lst.docs, lst.sst.v))

\* C14 as claimed: with sst=X and sd=Y (limit and offset left at their
\* defaults) the records returned are exactly those with one slice of sst X and
\* sd Y.
C14_SstSdFilterExact ==
    (SstSdQuery /\ DefaultPage) =>
        Ids(lst.result) = Ids(WithSstSd(lst.docs, lst.sst.v, lst.sd.v))

\* C14, amended: with sst=X and a non-empty sd=Y the records returned are,
\* of those with one single slice of sst X and sd Y taken in storage order, the
\* ones after the first offset and at most limit of them; an empty sd is
\* ignored (the list is the one filtered by sst alone).
C14_SstSdFilterPage ==
    SstSdQuery =>
        LET m == IF lst.sd.v = "" THEN Ids(WithSst(lst.docs, lst.sst.v))
                 ELSE Ids(WithSstSd(lst.docs, lst.sst.v, lst.sd.v))
        IN  IsPage(Ids(lst.result), m, lst.offset, lst.limit)

\* A list by sst and sd that returned one record and left out a record which
\* has the sst in one slice and the sd in another.
C14_Witness ==
    /\ SstSdQuery /\ DefaultPage /\ lst.sd.v # ""
    /\ Len(lst.result) = 1 /\ Len(lst.docs) = 2
    /\ \E k \in 1..2 :
          /\ lst.docs[k].id # lst.result[1].id
          /\ \E i, j \in 1..Len(lst.docs[k].slice) :
                /\ lst.docs[k].slice[i].sst = lst.sst.v
                /\ lst.docs[k].slice[j].sd = lst.sd

\* C20: a list returns at most limit records: the stored records that satisfy
\* the filter, in storage order, after the first offset of them; and it leaves
\* the stored documents as they were.
C20_Pagination ==
    /\ [](lst.pc = "done" =>
            LET q == BuildQuery(lst.name, lst.sst, lst.sd)
                m == Ids(SelectSeq(lst.docs, LAMBDA d : Matches(d, q)))
            IN  /\ Len(lst.result) <= lst.limit
                /\ IsPage(Ids(lst.result), m, lst.offset, lst.limit))
    /\ [][lst.pc = "query" => (lst'.docs = lst.docs /\ store' = store)]_vars

\* A list with offset 1 and limit 1 that returned the second of the matching
\* records, a third one being stored.
C20_Witness ==
    /\ lst.pc = "done" /\ lst.offset = 1 /\ lst.limit = 1
    /\ Len(lst.docs) > DefaultLimit /\ Len(lst.result) = 1 /\ lst.result[1].id = 2

\* The response the body's record is expected to give.
Expected(id, imsi, body) ==
    [id    |-> id,
     imsi  |-> imsi,
     name  |-> IF body.name.t = "val" THEN body.name ELSE Null,
     slice |-> [k \in 1..Len(body.slice) |->
                  [sst |-> IF body.slice[k].sst.t = "val" THEN body.slice[k].sst.v
                           ELSE DefaultSst,
                   sd  |-> IF body.slice[k].sd.t = "val" THEN body.slice[k].sd
                           ELSE Val(DefaultSd)]]]

\* The positions of the created record in the final list.
CreatedAt == {k \in 1..Len(lst.after) : lst.after[k].id = Len(lst.docs)}

HexLen      == 32     \* Hex32Str: ^[0-9a-fA-F]{32}$
MaxSlices   == 2      \* slices of an enumerated body
MaxSessions == 2      \* sessions of an enumerated slice

HexDigits == {"0", "1", "2", "3", "4", "5", "6", "7", "8", "9",
              "a", "b", "c", "d", "e", "f", "A", "B", "C", "D", "E", "F"}

\* Strings are sequences of characters.
\* Faulty variant: only leading spaces are removed.
clean_hex_leading(v) ==
    IF v # <<>> /\ v[1] = " " THEN SubSeq(v, 2, Len(v)) ELSE v

\* clean_hex_spaces: v.replace(" ", "") removes every space character and
\* nothing else.
clean_hex_spaces(v) == SelectSeq(v, LAMBDA c : c # " ")

\* Field(pattern=r"^[0-9a-fA-F]{32}$")
MatchesHex32(v) == Len(v) = HexLen /\ \A i \in 1..Len(v) : v[i] \in HexDigits

\* Optional[Hex32Str] = None: a field left out or null is None; a string is
\* cleaned, then matched against the pattern.
Hex32Field(x) ==
    IF x.t # "val" THEN [ok |-> TRUE, value |-> Null]
    ELSE LET v == clean_hex_spaces(x.v) IN
         IF MatchesHex32(v) THEN [ok |-> TRUE, value |-> Val(v)]
         ELSE [ok |-> FALSE, value |-> Null]

\* Python truth of an Optional[str] attribute.
Truthy(a) == a.t = "val" /\ a.v # <<>>

\* Faulty variant: giving neither op nor opc is let through.
check_op_or_opc_not_both(op, opc) == ~(Truthy(op) /\ Truthy(opc))

\* SecurityModel.check_op_or_opc (model_validator, mode="after")
check_op_or_opc(op, opc) ==
    /\ ~(Truthy(op) /\ Truthy(opc))
    /\ ~(~Truthy(op) /\ ~Truthy(opc))

\* SecurityModel(k, amf, op, opc) with a valid k and amf: the fields are
\* validated first, the model validator runs only if all of them passed.
SecurityModelAccepts(op, opc) ==
    LET fop == Hex32Field(op)  fopc == Hex32Field(opc) IN
    /\ fop.ok /\ fopc.ok
    /\ check_op_or_opc(fop.value, fopc.value)

\* n hexadecimal digits.
HexRun(n) == [i \in 1..n |-> IF i % 3 = 0 THEN "a" ELSE IF i % 3 = 1 THEN "0" ELSE "F"]

\* s with character c put in after its first p characters.
InsertAt(s, p, c) == SubSeq(s, 1, p) \o <<c>> \o SubSeq(s, p + 1, Len(s))

\* Strings given as op / opc: 31, 32 or 33 hexadecimal digits, alone or with a
\* space, a tab or a letter that is no digit put in at the start, in the
\* middle or at the end; the empty string; 32 digits with two spaces.
HexInputs ==
    { HexRun(n) : n \in {HexLen - 1, HexLen, HexLen + 1} }
    \cup { InsertAt(HexRun(n), p, c) :
             n \in {HexLen - 1, HexLen}, p \in {0, 16, HexLen - 1}, c \in {" ", "\t", "g"} }
    \cup { <<>>, InsertAt(InsertAt(HexRun(HexLen), 8, " "), 20, " ") }

OptHexInputs == {Absent, Null} \cup { Val(s) : s \in HexInputs }

SecurityInputs ==
    { [pc |-> "security", op |-> a, opc |-> b, accepted |-> FALSE] :
        a \in OptHexInputs, b \in OptHexInputs }

\* A session list: left out, or k sessions.
SessionLists == {Absent} \cup { Val([i \in 1..k |-> "internet"]) : k \in 0..MaxSessions }

\* A slice list: left out, or up to MaxSlices slices, each with its sessions.
SliceLists ==
    {Absent} \cup
    UNION { { Val(f) : f \in [1..n -> [session : SessionLists]] } : n \in 0..MaxSlices }

SubscriberInputs ==
    { [pc |-> "subscriber", slice |-> s, accepted |-> FALSE] : s \in SliceLists }

\* SliceModel: session: List[SessionModel] is required; a list of any length
\* passes.
SliceModelAccepts(sl) == sl.session.t = "val"

\* SubscriberSchema, the other fields being valid: slice: List[SliceModel] is
\* required; a list of any length passes if each of its slices does.
SubscriberSchemaAccepts(slice) ==
    /\ slice.t = "val"
    /\ \A k \in 1..Len(slice.v) : SliceModelAccepts(slice.v[k])

\* A SecurityModel is built from the given op and opc.
SecurityModelValidate ==
    /\ vld.pc = "security"
    /\ vld' = [vld EXCEPT !.pc = "security_done",
                          !.accepted = SecurityModelAccepts(vld.op, vld.opc)]
    /\ UNCHANGED <<store, index_imsi_unique, indexes_initialized, req, px, lst>>

\* A SubscriberSchema is built from a body with the given slice list.
SubscriberSchemaValidate ==
    /\ vld.pc = "subscriber"
    /\ vld' = [vld EXCEPT !.pc = "subscriber_done",
                          !.accepted = SubscriberSchemaAccepts(vld.slice)]
    /\ UNCHANGED <<store, index_imsi_unique, indexes_initialized, req, px, lst>>

ValidInit ==
    /\ store = <<>>
    /\ index_imsi_unique = FALSE
    /\ indexes_initialized = FALSE
    /\ req = [r \in Slots |-> IdleReq]
    /\ px = [c \in Calls |-> IdleCall]
    /\ lst = NoListing
    /\ vld \in SecurityInputs \cup SubscriberInputs

ValidNext == SecurityModelValidate \/ SubscriberSchemaValidate

ValidSpec == ValidInit /\ [][ValidNext]_vars

\* ---------------------------------------------- properties of the validation

\* x is given (not left out, not null) / x is given and, the characters of
\* removed taken out, is 32 hexadecimal digits.
Present(x) == x.t = "val"
WellFormed(x, removed) ==
    /\ Present(x)
    /\ LET kept == SelectSeq(x.v, LAMBDA c : c \notin removed)
       IN  Len(kept) = HexLen /\ \A i \in 1..Len(kept) : kept[i] \in HexDigits

ExactlyOneWellFormed(op, opc, removed) ==
    \/ WellFormed(op, removed) /\ ~Present(opc)
    \/ WellFormed(opc, removed) /\ ~Present(op)

\* C18 as claimed: with a valid k and amf, SecurityModel accepts exactly when
\* one of op / opc is given and is 32 hexadecimal digits once whitespace is
\* taken out.
C18_ExactlyOneAfterWhitespace ==
    vld.pc = "security_done" =>
        (vld.accepted <=> ExactlyOneWellFormed(vld.op, vld.opc, {" ", "\t"}))

\* C18, amended: with a valid k and amf, SecurityModel accepts exactly when
\* one of op / opc is given and is 32 hexadecimal digits once its space
\* characters are taken out (any other whitespace makes it invalid); both
\* given, or neither, is rejected.
C18_ExactlyOneAfterSpaces ==
    vld.pc = "security_done" =>
        /\ vld.accepted <=> ExactlyOneWellFormed(vld.op, vld.opc, {" "})
        /\ (Present(vld.op) /\ Present(vld.opc)) => ~vld.accepted
        /\ (~Present(vld.op) /\ ~Present(vld.opc)) => ~vld.accepted

\* An opc with spaces inside was accepted, op being null.
C18_Witness ==
    /\ vld.pc = "security_done" /\ vld.accepted
    /\ vld.op = Null /\ Present(vld.opc) /\ Len(vld.opc.v) = HexLen + 2

\* C19: a body that is accepted has at least one slice, and each of its slices
\* has at least one session.
C19_SlicesAndSessionsNonEmpty ==
    (vld.pc = "subscriber_done" /\ vld.accepted) =>
        /\ Len(vld.slice.v) >= 1
        /\ \A k \in 1..Len(vld.slice.v) : Len(vld.slice.v[k].session.v) >= 1

\* =========================================================================
\* The imsi values of the stored documents
\* =========================================================================

Digits == {"0", "1", "2", "3", "4", "5", "6", "7", "8", "9"}

\* The characters of the strings used as imsi.
CharsOf(s) ==
    CASE s = "001010000000001" ->
           <<"0", "0", "1", "0", "1", "0", "0", "0", "0", "0", "0", "0", "0", "0", "1">>
      [] s = "001010000000002" ->
           <<"0", "0", "1", "0", "1", "0", "0", "0", "0", "0", "0", "0", "0", "0", "2">>
      [] s = "abc" -> <<"a", "b", "c">>

\* ImsiStr: Field(pattern=r"^[0-9]{14,15}$")
MatchesImsiStr(s) ==
    LET c == CharsOf(s) IN
    /\ Len(c) \in 14..15
    /\ \A i \in 1..Len(c) : c[i] \in Digits

\* C21: every stored document has an imsi of 14 or 15 decimal digits, although
\* the path imsi of replace and delete is any string and replace writes the
\* path imsi over the payload's.
C21_StoredImsiWellFormed ==
    \A k \in 1..Len(store) : MatchesImsiStr(store[k].imsi)

\* A replace under a path imsi that is no imsi was answered 404 while
\* documents are stored.
C21_Witness ==
    \E r \in Slots :
        /\ Finished(r, "replace") /\ ~MatchesImsiStr(req[r].imsi)
        /\ req[r].status = HTTP_404_NOT_FOUND /\ Len(store) > 0

\* The imsi values present in a collection.
ImsiSet(s) == {s[k].imsi : k \in 1..Len(s)}

\* C22: a replace changes neither the set of imsi values stored nor the number
\* of documents, whatever imsi its payload embeds, and is never answered 409.
C22_ReplaceKeepsImsiSet ==
    /\ [][\A r \in Slots :
            HandlerStep(r, "replace") =>
                /\ ImsiSet(store') = ImsiSet(store)
                /\ Len(store') = Len(store)
                /\ req'[r].status # HTTP_409_CONFLICT]_vars
    /\ [](\A r \in Slots : Finished(r, "replace") => req[r].status # HTTP_409_CONFLICT)

\* With the unique index built, a replace whose payload embeds the imsi of
\* another stored document was answered 200.
C22_Witness ==
    \E r \in Slots :
        /\ Finished(r, "replace") /\ req[r].status = HTTP_200_OK
        /\ index_imsi_unique /\ req[r].pimsi # req[r].imsi
        /\ HasImsi(store, req[r].pimsi) /\ HasImsi(store, req[r].imsi)

\* =========================================================================
\* sd given without sst
\* =========================================================================

\* The stored documents whose name contains the name parameter, if one that is
\* not empty is given.
WithName(docs, name) ==
    SelectSeq(docs, LAMBDA d :
        (name.t = "val" /\ name.v # <<>>) =>
            (d.name.t = "val" /\ RegexSearchI(name.v, d.name.v)))

\* C23: a list called with sd and without sst applies no slice filter: it
\* returns what the same call without sd returns, the page of the records
\* selected by the name filter alone.
C23_SdWithoutSstIgnored ==
    (lst.pc = "done" /\ lst.sst = Null /\ lst.sd.t = "val") =>
        /\ lst.result = GetSubscribers(lst.docs, lst.name, Null, Null, lst.limit, lst.offset)
        /\ IsPage(Ids(lst.result), Ids(WithName(lst.docs, lst.name)), lst.offset, lst.limit)

\* A list with a non-empty sd and no sst returned both stored records, one of
\* which has no slice with that sd.
C23_Witness ==
    /\ lst.pc = "done" /\ lst.sst = Null /\ lst.sd.t = "val" /\ lst.sd.v # ""
    /\ Len(lst.docs) = 2 /\ Len(lst.result) = 2
    /\ \E k \in 1..2 :
          \A i \in 1..Len(lst.docs[k].slice) : lst.docs[k].slice[i].sd # lst.sd

====
